---- MODULE Spec2Model ----
(***************************************************************************)
(* Model of the persisted-provides core of the update agent                *)
(* (src/src/mender-update/context/context.cpp): LoadProvides,              *)
(* FilterProvides, CommitArtifactData, Initialize and                      *)
(* ArtifactMatchesContext.                                                 *)
(*                                                                         *)
(* A C++ std::string is a sequence of one-character strings; a             *)
(* ProvidesData (std::unordered_map / std::map of string to string) is a   *)
(* function from a finite set of such sequences to such sequences; an      *)
(* optional<T> is a record [has, val].                                     *)
(***************************************************************************)
EXTENDS Integers, Sequences, FiniteSets, TLC

VARIABLES store, last, build, pure, running

vars == <<store, last, build, pure, running>>

-----------------------------------------------------------------------------
(* Characters and strings *)

\* The keys of a map in every order the container may iterate them in:
\* ProvidesData is an unordered container, its iteration order is unspecified.
RECURSIVE KeyOrders(_)
KeyOrders(ks) ==
    IF ks = {} THEN {<<>>}
    ELSE UNION {{<<k>> \o o : o \in KeyOrders(ks \ {k})} : k \in ks}

\* optional<T>
None == [has |-> FALSE, val |-> <<>>]
Some(v) == [has |-> TRUE, val |-> v]

\* expected<T, Error>
Ok(v) == [ok |-> TRUE, val |-> v, err |-> "NoError"]
Err(e) == [ok |-> FALSE, val |-> <<>>, err |-> e]

EmptyMap == <<>>

\* m with key k set to v (ProvidesData::operator[] assignment).
MapSet(m, k, v) == [x \in DOMAIN m \cup {k} |-> IF x = k THEN v ELSE m[x]]

\* m without the keys ks (ProvidesData::erase).
MapErase(m, ks) == [x \in DOMAIN m \ ks |-> m[x]]

\* m[k], value-initialised to "" when k is missing (operator[] on a miss).
MapGet(m, k) == IF k \in DOMAIN m THEN m[k] ELSE <<>>

ArtifactName == <<"a","r","t","i","f","a","c","t","_","n","a","m","e">>
ArtifactGroup == <<"a","r","t","i","f","a","c","t","_","g","r","o","u","p">>

-----------------------------------------------------------------------------
(* Provides codec *)

\* json::EscapeString: quote, backslash and control characters are escaped.
EscapeChar(c) ==
    CASE c = "\"" -> <<"\\", "\"">>
      [] c = "\\" -> <<"\\", "\\">>
      [] c = "\n" -> <<"\\", "n">>
      [] c = "\t" -> <<"\\", "t">>
      [] c = "\r" -> <<"\\", "r">>
      [] c = "\f" -> <<"\\", "f">>
      [] c = "<BS>" -> <<"\\", "b">>
      [] OTHER -> <<c>>

RECURSIVE EscapeString(_)
EscapeString(s) ==
    IF s = <<>> THEN <<>> ELSE EscapeChar(Head(s)) \o EscapeString(Tail(s))

\* One "key":"escaped value", of the blob: the key is embedded as it is.
EncodePair(k, v) ==
    <<"\"">> \o k \o <<"\"", ":", "\"">> \o EscapeString(v) \o <<"\"", ",">>

RECURSIVE EncodePairs(_, _)
EncodePairs(m, order) ==
    IF order = <<>> THEN <<>>
    ELSE EncodePair(Head(order), m[Head(order)]) \o EncodePairs(m, Tail(order))

\* The artifact_provides_str built from modified_provides, its non-reserved
\* keys visited in `order`: "{" + pairs with the trailing comma turned into
\* "}", or "" when there is no pair.
CloseBrace(str) ==
    IF str # <<"{">> THEN [str EXCEPT ![Len(str)] = "}"] ELSE <<>>

EncodeProvides(m, order) == CloseBrace(<<"{">> \o EncodePairs(m, order))

NonReservedKeys(m) == DOMAIN m \ {ArtifactName, ArtifactGroup}

\* JSON text decoding (json::Load, Json::GetChildren, IsString, GetString).
IsWs(c) == c \in {" ", "\n", "\t", "\r"}
IsControl(c) == c \in {"\n", "\t", "\r", "\f", "<BS>"}
IsDigit(c) == c \in {"0", "1", "2", "3", "4", "5", "6", "7", "8", "9"}
IsHex(c) == IsDigit(c) \/ c \in {"a", "b", "c", "d", "e", "f", "A", "B", "C", "D", "E", "F"}

RECURSIVE SkipWs(_, _)
SkipWs(s, i) == IF i <= Len(s) /\ IsWs(s[i]) THEN SkipWs(s, i + 1) ELSE i

ParseFail == [ok |-> FALSE, kind |-> "error", val |-> <<>>, next |-> 0]

Unescape(e) ==
    CASE e = "n" -> "\n"
      [] e = "t" -> "\t"
      [] e = "r" -> "\r"
      [] e = "f" -> "\f"
      [] e = "b" -> "<BS>"
      [] OTHER -> e

\* The characters of a JSON string from position i (after the opening quote)
\* to its closing quote.
RECURSIVE ScanString(_, _, _)
ScanString(s, i, acc) ==
    IF i > Len(s) THEN ParseFail
    ELSE IF s[i] = "\"" THEN [ok |-> TRUE, kind |-> "string", val |-> acc, next |-> i + 1]
    ELSE IF s[i] = "\\" THEN
        IF i + 1 > Len(s) THEN ParseFail
        ELSE IF s[i + 1] \in {"\"", "\\", "/", "n", "t", "r", "f", "b"}
             THEN ScanString(s, i + 2, Append(acc, Unescape(s[i + 1])))
        ELSE IF s[i + 1] = "u" /\ i + 5 <= Len(s)
                /\ \A j \in (i + 2)..(i + 5) : IsHex(s[j])
             THEN ScanString(s, i + 6,
                     Append(acc, "\\u" \o s[i + 2] \o s[i + 3] \o s[i + 4] \o s[i + 5]))
        ELSE ParseFail
    ELSE IF IsControl(s[i]) THEN ParseFail
    ELSE ScanString(s, i + 1, Append(acc, s[i]))

RECURSIVE ScanDigits(_, _)
ScanDigits(s, i) == IF i <= Len(s) /\ IsDigit(s[i]) THEN ScanDigits(s, i + 1) ELSE i

\* A JSON value at position i: a string, or an unsigned integer; the other
\* value forms cannot be spelled with the characters of the model's strings.
ScanValue(s, i) ==
    IF i > Len(s) THEN ParseFail
    ELSE IF s[i] = "\"" THEN ScanString(s, i + 1, <<>>)
    ELSE IF IsDigit(s[i]) /\ s[i] # "0"
         THEN [ok |-> TRUE, kind |-> "number", val |-> <<>>, next |-> ScanDigits(s, i)]
    ELSE ParseFail

\* The members of an object from position i (a member is expected there),
\* step by step: the key, the colon, the value, then "," or "}".  A repeated
\* key keeps its last value.
RECURSIVE ScanMembers(_, _, _)

ScanMemberNext(s, e, acc) ==
    IF e > Len(s) THEN ParseFail
    ELSE IF s[e] = "}"
    THEN [ok |-> TRUE, kind |-> "object", val |-> acc, next |-> e + 1]
    ELSE IF s[e] = "," THEN ScanMembers(s, e + 1, acc)
    ELSE ParseFail

ScanMemberEnd(s, k, v, acc) ==
    IF ~v.ok THEN ParseFail
    ELSE ScanMemberNext(s, SkipWs(s, v.next),
                        MapSet(acc, k, [kind |-> v.kind, val |-> v.val]))

ScanMemberValue(s, k, c, acc) ==
    IF c > Len(s) \/ s[c] # ":" THEN ParseFail
    ELSE ScanMemberEnd(s, k, ScanValue(s, SkipWs(s, c + 1)), acc)

ScanMemberColon(s, key, acc) ==
    IF ~key.ok THEN ParseFail
    ELSE ScanMemberValue(s, key.val, SkipWs(s, key.next), acc)

ScanMemberKey(s, k0, acc) ==
    IF k0 > Len(s) \/ s[k0] # "\"" THEN ParseFail
    ELSE ScanMemberColon(s, ScanString(s, k0 + 1, <<>>), acc)

ScanMembers(s, i, acc) == ScanMemberKey(s, SkipWs(s, i), acc)

\* An object from its "{" at position i.
ScanObject(s, i, j) ==
    IF j <= Len(s) /\ s[j] = "}"
    THEN [ok |-> TRUE, kind |-> "object", val |-> EmptyMap, next |-> j + 1]
    ELSE ScanMembers(s, i + 1, EmptyMap)

ScanDocument(s, i) ==
    IF i <= Len(s) /\ s[i] = "{" THEN ScanObject(s, i, SkipWs(s, i + 1))
    ELSE ScanValue(s, i)

WholeText(s, v) == IF v.ok /\ SkipWs(s, v.next) = Len(s) + 1 THEN v ELSE ParseFail

\* json::Load: the whole text is one JSON value.
JsonLoad(s) == WholeText(s, ScanDocument(s, SkipWs(s, 1)))

-----------------------------------------------------------------------------
(* The durable store and LoadProvides *)

artifact_name_key == "artifact-name"
artifact_group_key == "artifact-group"
artifact_provides_key == "artifact-provides"
standalone_state_key == "standalone-state"
auth_token_name == "authtoken"
auth_token_cache_invalidator_name == "auth-token-cache-invalidator"

StoreKeys ==
    { artifact_name_key, artifact_group_key, artifact_provides_key,
      standalone_state_key, auth_token_name, auth_token_cache_invalidator_name }

\* Transaction.Write, Transaction.Remove on the transaction's view of the store.
TxnWrite(db, key, bytes) == [db EXCEPT ![key] = Some(bytes)]
TxnRemove(db, key) == [db EXCEPT ![key] = None]

\* kv_db::ReadString(txn, key, out, missing_ok = true): a missing key reads
\* as the empty string.
ReadString(db, key) == IF db[key].has THEN db[key].val ELSE <<>>

\* The three records, which is what a claim about "the persisted provides"
\* compares.
Records(db) ==
    [k \in {artifact_name_key, artifact_group_key, artifact_provides_key} |-> db[k]]

\* The children of the parsed blob copied into ret (ret[it.first] = ...).
RECURSIVE CopyChildren(_, _, _)
CopyChildren(ret, children, ks) ==
    IF ks = {} THEN ret
    ELSE LET k == CHOOSE x \in ks : TRUE
         IN  CopyChildren(MapSet(ret, k, children[k].val), children, ks \ {k})

\* Lines 158-164: the reserved keys, each only when its record is not empty.
ReservedProvides(artifact_name, artifact_group) ==
    [k \in (IF artifact_name # <<>> THEN {ArtifactName} ELSE {})
           \cup (IF artifact_group # <<>> THEN {ArtifactGroup} ELSE {}) |->
        IF k = ArtifactName THEN artifact_name ELSE artifact_group]

\* Lines 171-190: the parsed blob must be an object of strings, which are
\* copied into ret.
ChildrenInto(ret, ex_j) ==
    IF ~ex_j.ok THEN Err("JsonParseError")
    ELSE IF ex_j.kind # "object" THEN Err("JsonTypeError")
    ELSE IF ~(\A k \in DOMAIN ex_j.val : ex_j.val[k].kind = "string")
    THEN Err("JsonTypeError")
    ELSE Ok(CopyChildren(ret, ex_j.val, DOMAIN ex_j.val))

\* Lines 165-190.
DecodeProvides(ret, artifact_provides_str) ==
    IF artifact_provides_str = <<>> THEN Ok(ret)
    ELSE ChildrenInto(ret, JsonLoad(artifact_provides_str))

\* MenderContext::LoadProvides(kv_db::Transaction &txn); readFails is the
\* store failing a read.
LoadProvidesTxn(db, readFails) ==
    IF readFails THEN Err("DatabaseError")
    ELSE DecodeProvides(ReservedProvides(ReadString(db, artifact_name_key),
                                         ReadString(db, artifact_group_key)),
                        ReadString(db, artifact_provides_key))

-----------------------------------------------------------------------------
(* Pattern filter *)

\* string meta_characters {".^$+()[]{}|?"}
meta_characters == {".", "^", "$", "+", "(", ")", "[", "]", "{", "}", "|", "?"}

\* The escaped pattern: "*" becomes ".*", a meta character gets a backslash
\* before it, every other character (the backslash too) is copied.
EscapePatternChar(chr) ==
    IF chr = "*" THEN <<".", chr>>
    ELSE IF chr \in meta_characters THEN <<"\\", chr>>
    ELSE <<chr>>

RECURSIVE EscapePattern(_)
EscapePattern(to_clear) ==
    IF to_clear = <<>> THEN <<>>
    ELSE EscapePatternChar(Head(to_clear)) \o EscapePattern(Tail(to_clear))

\* The special characters of the POSIX basic grammar as std::regex scans it.
basic_spec_char == {".", "[", "\\", "*", "^", "$"}

RegexError == <<[t |-> "error"]>>

\* The token sequence std::regex scans from `e` under regex_constants::basic,
\* for the escaped strings the patterns of the model produce (no bracket
\* expression, interval, anchor or back reference arises from them).
\* In basic mode "\(" and "\)" are the grouping operators and a bare "(" or
\* ")" is an ordinary character; a backslash before a character that is not
\* special is an error in a strict-ANSI build and that character otherwise;
\* a backslash at the end is an error.  Every "*" of an escaped string
\* follows the "." the escaping put before it, so it always has an atom to
\* repeat.
EscapedToken(n) ==
    IF n = "(" THEN [t |-> "open"]
    ELSE IF n = ")" THEN [t |-> "close"]
    ELSE [t |-> "char", c |-> n]

EscapeAllowed(n, strict) == n \in {"(", ")"} \cup basic_spec_char \/ ~strict

RECURSIVE ScanRegex(_, _)
ScanRegex(e, strict) ==
    IF e = <<>> THEN <<>>
    ELSE IF e[1] \notin basic_spec_char
    THEN <<[t |-> "char", c |-> e[1]]>> \o ScanRegex(Tail(e), strict)
    ELSE IF e[1] = "." THEN <<[t |-> "any"]>> \o ScanRegex(Tail(e), strict)
    ELSE IF e[1] = "*" THEN <<[t |-> "star"]>> \o ScanRegex(Tail(e), strict)
    ELSE IF e[1] # "\\" \/ Len(e) = 1 THEN RegexError
    ELSE IF ~EscapeAllowed(e[2], strict) THEN RegexError
    ELSE <<EscapedToken(e[2])>> \o ScanRegex(Tail(Tail(e)), strict)

\* Group nesting: every "\)" closes an open "\(" and none stays open.
RECURSIVE Balanced(_, _)
Balanced(toks, depth) ==
    IF toks = <<>> THEN depth = 0
    ELSE IF Head(toks).t = "open" THEN Balanced(Tail(toks), depth + 1)
    ELSE IF Head(toks).t = "close"
         THEN depth > 0 /\ Balanced(Tail(toks), depth - 1)
    ELSE Balanced(Tail(toks), depth)

Compiled(toks) ==
    IF \E i \in 1..Len(toks) : toks[i].t = "error" THEN Err("regex_error")
    ELSE IF ~Balanced(toks, 0) THEN Err("regex_error")
    ELSE Ok(SelectSeq(toks, LAMBDA x : x.t \in {"char", "any", "star"}))

\* compiled.assign(escaped, regex_constants::basic): the compiled expression
\* or the regex_error it throws.
RegexCompile(e, strict) == Compiled(ScanRegex(e, strict))

AtomMatches(tok, ch) == tok.t = "any" \/ tok.c = ch

\* regex_match: the whole of key is matched by the atoms of toks (groups
\* carry no quantifier here, so they only bracket).
RECURSIVE RegexMatch(_, _)
RegexMatch(toks, key) ==
    IF toks = <<>> THEN key = <<>>
    ELSE IF Len(toks) >= 2 /\ toks[2].t = "star"
         THEN \/ RegexMatch(Tail(Tail(toks)), key)
              \/ /\ key # <<>>
                 /\ AtomMatches(toks[1], Head(key))
                 /\ RegexMatch(toks, Tail(key))
    ELSE /\ key # <<>>
         /\ AtomMatches(toks[1], Head(key))
         /\ RegexMatch(Tail(toks), Tail(key))

\* AssertOrReturnError(cond) when cond is false: the error returned by a
\* release build (NDEBUG), the abort of assert() otherwise.
AssertFailure(ndebug) == IF ndebug THEN "error" ELSE "abort"

\* A filter that never erases artifact_name or artifact_group.
EraseMatchingUnreserved(to_modify, toks) ==
    MapErase(to_modify, {k \in DOMAIN to_modify \ {ArtifactName, ArtifactGroup} :
                            RegexMatch(toks, k)})

\* to_modify without the keys the compiled pattern matches in full.
EraseMatching(to_modify, toks) ==
    MapErase(to_modify, {k \in DOMAIN to_modify : RegexMatch(toks, k)})

\* The loop over clears_provides of FilterProvides.
RECURSIVE ApplyClears(_, _, _)

ApplyClear(compiled, rest, to_modify, bld) ==
    IF ~compiled.ok
    THEN [res |-> AssertFailure(bld.ndebug), map |-> to_modify]
    ELSE ApplyClears(rest, EraseMatching(to_modify, compiled.val), bld)

ApplyClears(clears_provides, to_modify, bld) ==
    IF clears_provides = <<>> THEN [res |-> "ok", map |-> to_modify]
    ELSE ApplyClear(RegexCompile(EscapePattern(Head(clears_provides)), bld.strict),
                    Tail(clears_provides), to_modify, bld)

\* to_modify[provide.first] = provide.second for every new provide.
MapOverlay(to_modify, new_provides) ==
    [k \in DOMAIN to_modify \cup DOMAIN new_provides |->
        IF k \in DOMAIN new_provides THEN new_provides[k] ELSE to_modify[k]]

AddNewProvides(cleared, new_provides) ==
    IF cleared.res # "ok" THEN cleared
    ELSE [res |-> "ok", map |-> MapOverlay(cleared.map, new_provides)]

\* static error::Error FilterProvides(new_provides, clears_provides, to_modify)
FilterProvides(new_provides, clears_provides, to_modify, bld) ==
    AddNewProvides(ApplyClears(clears_provides, to_modify, bld), new_provides)

-----------------------------------------------------------------------------
(* CommitArtifactData *)

\* A merge that takes an absent clears_provides for the empty list.
MergeAbsentAsEmpty(existing, new_provides, clears_provides, bld) ==
    IF ~new_provides.has /\ ~clears_provides.has
    THEN [res |-> "ok", map |-> EmptyMap]
    ELSE FilterProvides(IF new_provides.has THEN new_provides.val ELSE EmptyMap,
                        IF clears_provides.has THEN clears_provides.val ELSE <<>>,
                        existing, bld)

\* Lines 300-317: the four merge cases on the loaded provides.
MergeProvides(existing, new_provides, clears_provides, bld) ==
    IF ~new_provides.has /\ ~clears_provides.has
    THEN [res |-> "ok", map |-> EmptyMap]
    ELSE IF ~new_provides.has
    THEN FilterProvides(EmptyMap, clears_provides.val, existing, bld)
    ELSE IF ~clears_provides.has
    THEN [res |-> "ok", map |-> new_provides.val]
    ELSE FilterProvides(new_provides.val, clears_provides.val, existing, bld)

\* Lines 322-327: the non-empty name and group arguments go on top.
OverlayGroup(modified_provides, artifact_group) ==
    IF artifact_group # <<>>
    THEN MapSet(modified_provides, ArtifactGroup, artifact_group)
    ELSE modified_provides

\* An overlay that leaves a reserved key the merge already holds.
OverlayIfMissing(modified_provides, artifact_name, artifact_group) ==
    [k \in DOMAIN modified_provides
              \cup (IF artifact_name # <<>> THEN {ArtifactName} ELSE {})
              \cup (IF artifact_group # <<>> THEN {ArtifactGroup} ELSE {}) |->
        IF k \in DOMAIN modified_provides THEN modified_provides[k]
        ELSE IF k = ArtifactName THEN artifact_name ELSE artifact_group]

OverlayNameGroup(modified_provides, artifact_name, artifact_group) ==
    OverlayGroup(IF artifact_name # <<>>
                 THEN MapSet(modified_provides, ArtifactName, artifact_name)
                 ELSE modified_provides,
                 artifact_group)

\* A commit that writes the artifact name whatever it is.
NameIsSetAlways(modified_provides) == TRUE

\* Line 346: the artifact name may be written.
NameIsSet(modified_provides) == MapGet(modified_provides, ArtifactName) # <<>>

\* Line 358: the artifact group is written rather than removed.
GroupIsSet(modified_provides) == MapGet(modified_provides, ArtifactGroup) # <<>>

\* Line 369: the provides blob is written.
ProvidesIsSet(artifact_provides_str) == artifact_provides_str # <<>>

\* Line 376: txn_func(txn), a caller's continuation that may write its own
\* record and may fail.
ContinuationWrites(txn, cont) ==
    IF cont.writes THEN TxnWrite(txn, standalone_state_key, <<"s">>) ELSE txn

\* A commit that drops the error its continuation returns.
ContinuationNeverFails(cont) == "ok"

\* Line 376: the continuation's error is the function's result.
ContinuationResult(cont) == IF cont.fails THEN "error" ELSE "ok"

\* The outcome of the function CommitArtifactData hands to WriteTransaction:
\* its result, the transaction's view of the store when it returns, the
\* merged provides (once computed) and whether the continuation ran.
Outcome(res, txn, merged, called) ==
    [res |-> res, txn |-> txn, merged |-> merged, cont |-> called]

\* Line 376.
RunContinuation(txn, a, modified) ==
    Outcome(ContinuationResult(a.env.cont), ContinuationWrites(txn, a.env.cont),
            Some(modified), TRUE)

\* Lines 369-375.
WriteProvides(txn, a, modified, artifact_provides_str) ==
    IF ~ProvidesIsSet(artifact_provides_str) THEN RunContinuation(txn, a, modified)
    ELSE IF a.env.fault = "write-provides"
    THEN Outcome("error", txn, Some(modified), FALSE)
    ELSE RunContinuation(TxnWrite(txn, artifact_provides_key, artifact_provides_str),
                         a, modified)

\* A commit that goes on after a failed write of the group.
WriteGroupIgnoringError(txn, a, modified, artifact_provides_str) ==
    WriteProvides(txn, a, modified, artifact_provides_str)

\* Lines 358-367.
WriteGroup(txn, a, modified, artifact_provides_str) ==
    IF a.env.fault = "write-group"
    THEN Outcome("error", txn, Some(modified), FALSE)
    ELSE WriteProvides(IF GroupIsSet(modified)
                       THEN TxnWrite(txn, artifact_group_key,
                                     MapGet(modified, ArtifactGroup))
                       ELSE TxnRemove(txn, artifact_group_key),
                       a, modified, artifact_provides_str)

\* Lines 329-376, from the merged provides on; order is the iteration order
\* of modified_provides.
CommitWrites(db, a, modified, order, bld) ==
    IF ~NameIsSet(modified)
    THEN Outcome(AssertFailure(bld.ndebug), db, Some(modified), FALSE)
    ELSE IF a.env.fault = "write-name"
    THEN Outcome("error", db, Some(modified), FALSE)
    ELSE WriteGroup(TxnWrite(db, artifact_name_key, MapGet(modified, ArtifactName)),
                    a, modified, EncodeProvides(modified, order))

Overlaid(merged, a) ==
    IF merged.res # "ok" THEN merged
    ELSE [res |-> "ok", map |-> OverlayNameGroup(merged.map, a.name, a.group)]

\* Lines 293-327: load, merge, overlay; exp_existing is what LoadProvides(txn)
\* returned.
CommitMerge(exp_existing, a, bld) ==
    IF ~exp_existing.ok THEN [res |-> "error", map |-> EmptyMap]
    ELSE Overlaid(MergeProvides(exp_existing.val, a.newp, a.clears, bld), a)

\* The function CommitArtifactData hands to WriteTransaction (lines 292-377),
\* m being its merge and order the iteration order of modified_provides.
CommitTxn(db, a, m, order, bld) ==
    IF m.res # "ok" THEN Outcome(m.res, db, None, FALSE)
    ELSE CommitWrites(db, a, m.map, order, bld)

\* The iteration orders modified_provides may have when it is encoded.
CommitOrders(m) ==
    IF m.res # "ok" THEN {<<>>} ELSE KeyOrders(NonReservedKeys(m.map))

\* KeyValueDatabase::WriteTransaction: the transaction's writes are kept when
\* the function returns NoError and discarded otherwise (an abort kills the
\* process inside the transaction, which discards them too).
WriteTransaction(db, out) == IF out.res = "ok" THEN out.txn ELSE db

-----------------------------------------------------------------------------
(* Inputs *)

MaxOps == 2
MaxNewProvides == 1
MaxClears == 1

NamePool == {<<>>, <<"n">>}
GroupPool == {<<>>, <<"g">>}
KeyPool == {ArtifactName, <<"a">>, <<"\\", "\\">>}
NewValue == <<"2">>
PatternPool == {<<"*">>, <<"(">>}

\* Sequences over S of length at most n.
RECURSIVE SeqsUpTo(_, _)
SeqsUpTo(S, n) ==
    IF n = 0 THEN {<<>>}
    ELSE LET shorter == SeqsUpTo(S, n - 1)
         IN  shorter \cup {Append(q, x) : q \in {r \in shorter : Len(r) = n - 1}, x \in S}

NewProvidesPool ==
    {None} \cup
    {Some([k \in ks |-> NewValue]) : ks \in {x \in SUBSET KeyPool : Cardinality(x) <= MaxNewProvides}}

ClearsPool == {None} \cup {Some(q) : q \in SeqsUpTo(PatternPool, MaxClears)}

NoFault(c) == [fault |-> "none", cont |-> c]

EnvPool ==
    {NoFault([writes |-> w, fails |-> f]) : w \in BOOLEAN, f \in BOOLEAN}
    \cup {[fault |-> x, cont |-> [writes |-> FALSE, fails |-> FALSE]] :
            x \in {"read", "write-group", "write-provides"}}

CommitArgs ==
    [name : NamePool, group : GroupPool, newp : NewProvidesPool,
     clears : ClearsPool, env : EnvPool]

NoArgs == [name |-> <<>>, group |-> <<>>, newp |-> None, clears |-> None,
           env |-> NoFault([writes |-> FALSE, fails |-> FALSE])]

EmptyStore == [k \in StoreKeys |-> None]

Blob(m) == EncodeProvides(m, CHOOSE o \in KeyOrders(DOMAIN m) : TRUE)

\* Stores a device can start from: a fresh one, a provisioned one (with and
\* without the stale authentication keys), one whose blob was corrupted.
InitStores ==
    { EmptyStore,
      [EmptyStore EXCEPT ![artifact_name_key] = Some(<<"m">>),
                         ![auth_token_name] = Some(<<"t">>)],
      [EmptyStore EXCEPT ![artifact_name_key] = Some(<<"m">>),
                         ![artifact_group_key] = Some(<<"f">>),
                         ![artifact_provides_key] =
                             Some(Blob([k \in {<<"a">>, <<"b">>} |-> <<"1">>])),
                         ![auth_token_name] = Some(<<"t">>),
                         ![auth_token_cache_invalidator_name] = Some(<<"i">>)],
      [EmptyStore EXCEPT ![artifact_name_key] = Some(<<"m">>),
                         ![artifact_provides_key] =
                             Some(<<"{", "\"", "a", "\"", ":", "1", "}">>)] }

Builds == [strict : BOOLEAN, ndebug : BOOLEAN]

Idle == [fn |-> "none"]

\* No transaction is open.
NoTxn == [writer |-> [pc |-> "idle"], reader |-> [pc |-> "idle"]]

-----------------------------------------------------------------------------
(* The store as a state machine *)

Observation(op, a, res, merged, ret, called, repeat, after) ==
    [op |-> op, n |-> last.n + 1, args |-> a, res |-> res, pre |-> store,
     merged |-> merged, ret |-> ret, cont |-> called, repeat |-> repeat,
     after |-> after]

NoCall(db) ==
    [op |-> "none", n |-> 0, args |-> NoArgs, res |-> "ok", pre |-> db,
     merged |-> None, ret |-> Ok(EmptyMap), cont |-> FALSE, repeat |-> FALSE,
     after |-> None]

Init ==
    /\ store \in InitStores
    /\ build \in {b \in Builds : ~b.strict}
    /\ pure = Idle
    /\ running = NoTxn
    /\ last = NoCall(store)

\* An Initialize that removes the token and forgets its invalidator.
InitializeTokenOnly(db, fault) ==
    IF fault \in {"open", "remove-token"} THEN db ELSE TxnRemove(db, auth_token_name)

\* MenderContext::Initialize (the LMDB build); fault is the store call that
\* fails, if any.  Open fails before anything is removed; a failing Remove
\* leaves what was removed before it.
InitializeStore(db, fault) ==
    CASE fault = "open" -> db
      [] fault = "remove-token" -> db
      [] fault = "remove-invalidator" -> TxnRemove(db, auth_token_name)
      [] OTHER -> TxnRemove(TxnRemove(db, auth_token_name),
                            auth_token_cache_invalidator_name)

Initialize ==
    /\ last.n < MaxOps
    /\ \E fault \in {"none", "open", "remove-token", "remove-invalidator"} :
         /\ store' = InitializeStore(store, fault)
         /\ last' = Observation("Initialize", [NoArgs EXCEPT !.env.fault = fault],
                                IF fault = "none" THEN "ok" ELSE "error",
                                None, Ok(EmptyMap), FALSE, FALSE, None)
    /\ UNCHANGED <<build, pure, running>>

\* The merged provides of the commit that has just succeeded, when its
\* continuation wrote nothing.
JustCommitted ==
    IF /\ last.op = "CommitArtifactData"
       /\ last.res = "ok"
       /\ ~last.args.env.cont.writes
    THEN last.merged ELSE None

LoadDone(data) ==
    last' = Observation("LoadProvides", NoArgs, IF data.ok THEN "ok" ELSE "error",
                        None, data, FALSE, FALSE, JustCommitted)

\* MenderContext::LoadProvides(): LoadProvides(txn) in a read transaction.
LoadProvides ==
    /\ last.n < MaxOps
    /\ \E readFails \in BOOLEAN : LoadDone(LoadProvidesTxn(store, readFails))
    /\ UNCHANGED <<store, build, pure, running>>

CommitDone(a, out) ==
    /\ store' = WriteTransaction(store, out)
    /\ last' = Observation("CommitArtifactData", a, out.res, out.merged,
                           Ok(EmptyMap), out.cont,
                           /\ last.op = "CommitArtifactData"
                           /\ last.args = a
                           /\ ~a.env.cont.writes,
                           None)

CommitCall(a, m) ==
    \E order \in CommitOrders(m) : CommitDone(a, CommitTxn(store, a, m, order, build))

CommitAny(loaded) ==
    \E a \in CommitArgs :
        CommitCall(a, CommitMerge(IF a.env.fault = "read"
                                  THEN LoadProvidesTxn(store, TRUE) ELSE loaded,
                                  a, build))

\* MenderContext::CommitArtifactData(artifact_name, artifact_group,
\* new_provides, clears_provides, txn_func).
CommitArtifactData ==
    /\ last.n < MaxOps
    /\ CommitAny(LoadProvidesTxn(store, FALSE))
    /\ UNCHANGED <<build, pure, running>>

Next == Initialize \/ LoadProvides \/ CommitArtifactData

Spec == Init /\ [][Next]_vars

-----------------------------------------------------------------------------
(* Properties of the store as a state machine *)

\* The glob match of the Pattern Filter as the specification defines it: "*"
\* matches zero or more arbitrary characters, every other character itself,
\* and the whole key is matched.
RECURSIVE GlobMatch(_, _)
GlobMatch(p, k) ==
    IF p = <<>> THEN k = <<>>
    ELSE IF Head(p) = "*"
    THEN GlobMatch(Tail(p), k) \/ (k # <<>> /\ GlobMatch(p, Tail(k)))
    ELSE k # <<>> /\ Head(k) = Head(p) /\ GlobMatch(Tail(p), Tail(k))

IsCommit == last.op = "CommitArtifactData"

\* The mapping m with the non-empty name and group on top, as the merge
\* rules state it.
WithNameGroup(m, name, group) ==
    [k \in DOMAIN m \cup (IF name # <<>> THEN {ArtifactName} ELSE {})
                    \cup (IF group # <<>> THEN {ArtifactGroup} ELSE {}) |->
        IF k = ArtifactName /\ name # <<>> THEN name
        ELSE IF k = ArtifactGroup /\ group # <<>> THEN group
        ELSE m[k]]

\* What LoadProvides returns from a store whose reads succeed.
Persisted(db) == LoadProvidesTxn(db, FALSE)

\* C1: a LoadProvides that runs right after a successful commit whose
\* continuation wrote nothing returns exactly the merged mapping of that
\* commit, and such a commit leaves no artifact-provides record when the
\* merged mapping has no non-reserved key.
C1_LoadReturnsMerged ==
    /\ (/\ last.op = "LoadProvides"
        /\ last.after.has
        /\ last.ret # Err("DatabaseError"))
       => last.ret = Ok(last.after.val)
    /\ (/\ IsCommit
        /\ last.res = "ok"
        /\ ~last.args.env.cont.writes
        /\ NonReservedKeys(last.merged.val) = {})
       => ~store[artifact_provides_key].has

\* C2: a commit whose continuation returns an error, or that fails at any
\* earlier step of its write transaction, leaves the three records as they
\* were before the call.
C2_FailedCommitChangesNothing ==
    (/\ IsCommit
     /\ \/ last.res # "ok"
        \/ last.cont /\ last.args.env.cont.fails)
    => Records(store) = Records(last.pre)

\* C2's case: the continuation ran and failed after the transaction had
\* written records that differ from the persisted ones.
C2_Witness ==
    /\ IsCommit
    /\ last.cont
    /\ last.args.env.cont.fails
    /\ last.res = "error"
    /\ Persisted(last.pre) # Ok(last.merged.val)

\* C3: the persisted artifact-name record is never the empty string, and a
\* commit that succeeds leaves a non-empty artifact-name record.
C3_NameNeverEmpty ==
    /\ store[artifact_name_key] # Some(<<>>)
    /\ (IsCommit /\ last.res = "ok")
       => /\ store[artifact_name_key].has
          /\ store[artifact_name_key].val # <<>>

\* C3's case: a commit with an empty name argument succeeded on a store that
\* had no artifact-name record.
C3_Witness ==
    /\ IsCommit
    /\ last.res = "ok"
    /\ last.args.name = <<>>
    /\ ~last.pre[artifact_name_key].has

\* C8: after a successful commit with neither new_provides nor
\* clears_provides and a non-empty name, the persisted provides are
\* artifact_name = name and, when group is not empty, artifact_group = group,
\* and nothing else.
C8_FullWipe ==
    (/\ IsCommit
     /\ last.res = "ok"
     /\ ~last.args.newp.has
     /\ ~last.args.clears.has
     /\ last.args.name # <<>>)
    => Persisted(store) = Ok(WithNameGroup(EmptyMap, last.args.name, last.args.group))

\* C9: a commit repeated with the same arguments (continuation writing
\* nothing) leaves the persisted provides the first one left.
C9_CommitIdempotent ==
    (IsCommit /\ last.repeat) => Persisted(store) = Persisted(last.pre)

\* C15: Initialize leaves the three provides records as they were; it
\* succeeds exactly when no store call fails, whether or not the two
\* authentication keys were there, and then neither of them is left.
C15_InitializeFrame ==
    last.op = "Initialize" =>
        /\ Records(store) = Records(last.pre)
        /\ last.res = "ok" <=> last.args.env.fault = "none"
        /\ last.res = "ok" => /\ ~store[auth_token_name].has
                              /\ ~store[auth_token_cache_invalidator_name].has

\* C15's case: Initialize succeeded on a store that held both
\* authentication keys and provides records.
C15_Witness ==
    /\ last.op = "Initialize"
    /\ last.res = "ok"
    /\ last.pre[auth_token_name].has
    /\ last.pre[auth_token_cache_invalidator_name].has
    /\ last.pre[artifact_provides_key].has

\* The merge of a commit before the name and group arguments go on top.
BeforeOverlay ==
    MergeProvides(Persisted(last.pre).val, last.args.newp, last.args.clears, build).map

RecordOf(value) == IF value # <<>> THEN Some(value) ELSE None

\* C16: after a successful commit a non-empty name argument is the persisted
\* artifact-name and a non-empty group argument the persisted artifact-group,
\* whatever the merge holds; with an empty argument the merged value of the
\* key, or no record when there is none, is what is persisted.
C16_ReservedOverlay ==
    (IsCommit /\ last.res = "ok") =>
        /\ store[artifact_name_key] =
              IF last.args.name # <<>> THEN Some(last.args.name)
              ELSE RecordOf(MapGet(BeforeOverlay, ArtifactName))
        /\ store[artifact_group_key] =
              IF last.args.group # <<>> THEN Some(last.args.group)
              ELSE RecordOf(MapGet(BeforeOverlay, ArtifactGroup))

\* C16's case: the name argument won over the artifact_name that
\* new_provides carried, and the group argument over the persisted group.
C16_Witness ==
    /\ IsCommit
    /\ last.res = "ok"
    /\ last.args.name # <<>>
    /\ last.args.group # <<>>
    /\ MapGet(BeforeOverlay, ArtifactName) \notin {<<>>, last.args.name}
    /\ MapGet(BeforeOverlay, ArtifactGroup) \notin {<<>>, last.args.group}

\* No step before the continuation failed: the load and the merge gave a
\* mapping, it has a name, and no record write failed.
StepsSucceeded ==
    /\ last.merged.has
    /\ MapGet(last.merged.val, ArtifactName) # <<>>
    /\ last.args.env.fault # "write-group"
    /\ last.args.env.fault = "write-provides" => NonReservedKeys(last.merged.val) = {}

MergedWithoutName ==
    /\ IsCommit
    /\ last.merged.has
    /\ MapGet(last.merged.val, ArtifactName) = <<>>

\* C19 as stated: a commit whose merged mapping has no non-empty
\* artifact_name returns an error, does not run the continuation and leaves
\* the three records as they were.
C19_NoNameReturnsError ==
    MergedWithoutName =>
        /\ last.res = "error"
        /\ ~last.cont
        /\ Records(store) = Records(last.pre)

\* C19: a commit whose merged mapping has no non-empty artifact_name fails on
\* its assertion, which returns an error in a release build and aborts the
\* process in a debug build; the continuation is not run and the three
\* records stay as they were.
C19_NoNameFails ==
    MergedWithoutName =>
        /\ last.res = (IF build.ndebug THEN "error" ELSE "abort")
        /\ ~last.cont
        /\ Records(store) = Records(last.pre)

\* C19's case: a clear pattern removed the persisted artifact_name, nothing
\* put it back, and the store had records to lose.
C19_Witness ==
    /\ MergedWithoutName
    /\ last.args.clears.has
    /\ last.pre[artifact_name_key].has
    /\ last.pre[artifact_provides_key].has

\* A successful commit with an empty group argument and no artifact_group in
\* new_provides, on a store that holds a group.
GroupLeftToClears ==
    /\ IsCommit
    /\ last.res = "ok"
    /\ last.args.group = <<>>
    /\ last.args.clears.has
    /\ last.args.newp.has => ArtifactGroup \notin DOMAIN last.args.newp.val
    /\ last.pre[artifact_group_key].has
    /\ last.pre[artifact_group_key].val # <<>>

\* C20: such a commit removes the artifact-group record when one of its
\* clear patterns matches "artifact_group", and keeps the group when
\* clears_provides is the empty list.
C20_ClearsReachGroup ==
    GroupLeftToClears =>
        /\ (\E i \in 1..Len(last.args.clears.val) :
                GlobMatch(last.args.clears.val[i], ArtifactGroup))
           => ~store[artifact_group_key].has
        /\ last.args.clears.val = <<>>
           => store[artifact_group_key] = last.pre[artifact_group_key]

\* C20's case: the pattern "*" removed the persisted group.
C20_Witness ==
    /\ GroupLeftToClears
    /\ last.args.clears.val = << <<"*">> >>
    /\ ~store[artifact_group_key].has

-----------------------------------------------------------------------------
(* The merge as a function: its inputs are drawn at the start, MergeApply
   computes it. *)

ExistingKeys == {ArtifactName, ArtifactGroup, <<"a">>, <<"(", "a", ")">>}
ExistingPool == {[k \in ks |-> <<"1">>] : ks \in SUBSET ExistingKeys}
MergeNewPool ==
    {None} \cup {Some([k \in ks |-> NewValue]) : ks \in SUBSET {ArtifactGroup, <<"a">>}}
MergePatterns == {<<"*">>, <<"a">>, <<"(", "a", ")">>}
MergeClearsPool == {None} \cup {Some(q) : q \in SeqsUpTo(MergePatterns, MaxClears)}

MergeInputs ==
    [existing : ExistingPool, newp : MergeNewPool, clears : MergeClearsPool,
     name : NamePool, group : GroupPool]

MergeInit ==
    /\ store = EmptyStore
    /\ last = NoCall(EmptyStore)
    /\ running = NoTxn
    /\ build \in Builds
    /\ \E x \in MergeInputs : pure = [fn |-> "merge", in |-> x, done |-> FALSE]

\* Lines 299-327 of CommitArtifactData on the loaded provides pure.in.existing:
\* merged is modified_provides before the name and group go on top, out after.
MergeApply ==
    /\ pure.fn = "merge"
    /\ ~pure.done
    /\ pure' = [fn |-> "merge", in |-> pure.in, done |-> TRUE,
                merged |-> MergeProvides(pure.in.existing, pure.in.newp,
                                         pure.in.clears, build),
                out |-> CommitMerge(Ok(pure.in.existing), pure.in, build)]
    /\ UNCHANGED <<store, last, build, running>>

SpecMerge == MergeInit /\ [][MergeApply]_vars

Merged == pure.fn = "merge" /\ pure.done

\* P overlaid with N, N winning collisions, as the merge rules state it.
Overlaid2(P, N) ==
    [k \in DOMAIN P \cup DOMAIN N |-> IF k \in DOMAIN N THEN N[k] ELSE P[k]]

\* m without the keys that glob-match one of the patterns.
GlobFiltered(m, patterns) ==
    [k \in {x \in DOMAIN m : \A i \in 1..Len(patterns) : ~GlobMatch(patterns[i], x)} |->
        m[k]]

\* C6: with new_provides N and no clears_provides the merged mapping is N
\* alone, as with clears_provides ["*"]; with the empty clears_provides it is
\* the existing mapping overlaid with N; the non-empty name and group then go
\* on top in both cases.
C6_AbsentVersusEmptyClears ==
    (Merged /\ pure.in.newp.has) =>
        /\ ~pure.in.clears.has =>
              /\ pure.merged = [res |-> "ok", map |-> pure.in.newp.val]
              /\ pure.merged = MergeProvides(pure.in.existing, pure.in.newp,
                                             Some(<< <<"*">> >>), build)
              /\ pure.out = [res |-> "ok",
                             map |-> WithNameGroup(pure.in.newp.val,
                                                   pure.in.name, pure.in.group)]
        /\ pure.in.clears = Some(<<>>) =>
              /\ pure.merged = [res |-> "ok",
                                map |-> Overlaid2(pure.in.existing, pure.in.newp.val)]
              /\ pure.out = [res |-> "ok",
                             map |-> WithNameGroup(Overlaid2(pure.in.existing,
                                                             pure.in.newp.val),
                                                   pure.in.name, pure.in.group)]

\* C6's case: new_provides without clears_provides dropped a persisted
\* artifact_group and a persisted key that N does not carry.
C6_Witness ==
    /\ Merged
    /\ pure.in.newp.has
    /\ ~pure.in.clears.has
    /\ pure.in.group = <<>>
    /\ {ArtifactGroup, <<"a">>} \subseteq DOMAIN pure.in.existing
    /\ {ArtifactGroup, <<"a">>} \cap DOMAIN pure.in.newp.val = {}
    /\ {ArtifactGroup, <<"a">>} \cap DOMAIN pure.out.map = {}

\* C7: with clears_provides supplied the merged mapping is the existing one
\* without the keys that match one of the patterns, overlaid with
\* new_provides when it is supplied.
C7_ClearsThenOverlay ==
    (Merged /\ pure.in.clears.has) =>
        pure.merged = [res |-> "ok",
                       map |-> Overlaid2(GlobFiltered(pure.in.existing,
                                                      pure.in.clears.val),
                                         IF pure.in.newp.has THEN pure.in.newp.val
                                         ELSE EmptyMap)]

-----------------------------------------------------------------------------
(* The pattern filter as a function *)

MaxPatLen == 2
MaxKeyLen == 2
MaxMapKeys == 2

PatternChars == {"a", "*", "(", ")", "\\", "+"}
FilterKeyChars == {"a", "("}
FilterKeys == SeqsUpTo(FilterKeyChars, MaxKeyLen) \ {<<>>}
FilterMaps ==
    {[k \in ks |-> <<"1">>] : ks \in {x \in SUBSET FilterKeys : Cardinality(x) <= MaxMapKeys}}

FilterInputs == [pattern : SeqsUpTo(PatternChars, MaxPatLen), map : FilterMaps]

FilterInit ==
    /\ store = EmptyStore
    /\ last = NoCall(EmptyStore)
    /\ running = NoTxn
    /\ build \in Builds
    /\ \E x \in FilterInputs : pure = [fn |-> "filter", in |-> x, done |-> FALSE]

\* FilterProvides({}, [pattern], to_modify).
FilterApply ==
    /\ pure.fn = "filter"
    /\ ~pure.done
    /\ pure' = [fn |-> "filter", in |-> pure.in, done |-> TRUE,
                out |-> FilterProvides(EmptyMap, <<pure.in.pattern>>, pure.in.map, build)]
    /\ UNCHANGED <<store, last, build, running>>

SpecFilter == FilterInit /\ [][FilterApply]_vars

\* C10: the filter removes exactly the keys the pattern glob-matches, every
\* character of the pattern but "*" standing for itself, and leaves the other
\* keys and their values as they were.
C10_GlobSemantics ==
    (pure.fn = "filter" /\ pure.done) =>
        pure.out = [res |-> "ok",
                    map |-> GlobFiltered(pure.in.map, <<pure.in.pattern>>)]

-----------------------------------------------------------------------------
(* ArtifactMatchesContext *)

\* common::MapContainsStringKey(map, key): the map has the key.
MapContainsStringKey(m, k) == k \in DOMAIN m

\* common::VectorContainsString(vector, str)
VectorContainsString(v, str) == \E i \in 1..Len(v) : v[i] = str

MatchResult(b) == [res |-> "ok", val |-> b]
MatchError(e) == [res |-> e, val |-> FALSE]

\* Lines 436-453: every type-info depends is provided with an equal value.
TypeInfoMatches(provides, ti_depends) ==
    ~ti_depends.has
    \/ \A k \in DOMAIN ti_depends.val :
          /\ MapContainsStringKey(provides, k)
          /\ provides[k] = ti_depends.val[k]

\* expected::ExpectedBool ArtifactMatchesContext(provides, device_type,
\* hdr_info, type_info); hdr_depends is hdr_info.depends, ti_depends is
\* type_info.artifact_depends.
ArtifactMatchesContext(provides, device_type, hdr_depends, ti_depends, bld) ==
    IF ~MapContainsStringKey(provides, ArtifactName)
    THEN MatchError("ValueError")
    ELSE IF ~(Len(hdr_depends.device_type) > 0)
    THEN MatchError(AssertFailure(bld.ndebug))
    ELSE IF ~VectorContainsString(hdr_depends.device_type, device_type)
    THEN MatchResult(FALSE)
    ELSE IF hdr_depends.artifact_name.has /\ ~(Len(hdr_depends.artifact_name.val) > 0)
    THEN MatchError(AssertFailure(bld.ndebug))
    ELSE IF /\ hdr_depends.artifact_name.has
            /\ ~VectorContainsString(hdr_depends.artifact_name.val, provides[ArtifactName])
    THEN MatchResult(FALSE)
    ELSE IF hdr_depends.artifact_group.has /\ ~(Len(hdr_depends.artifact_group.val) > 0)
    THEN MatchError(AssertFailure(bld.ndebug))
    ELSE IF /\ hdr_depends.artifact_group.has
            /\ ~MapContainsStringKey(provides, ArtifactGroup)
    THEN MatchResult(FALSE)
    ELSE IF /\ hdr_depends.artifact_group.has
            /\ ~VectorContainsString(hdr_depends.artifact_group.val, provides[ArtifactGroup])
    THEN MatchResult(FALSE)
    ELSE MatchResult(TypeInfoMatches(provides, ti_depends))

MatchValues == {<<>>, <<"x">>}
MatchKeys == {ArtifactName, ArtifactGroup, <<"k">>}
MatchProvides == UNION {[ks -> MatchValues] : ks \in SUBSET MatchKeys}
DependsLists == {None, Some(<<>>), Some(<< <<"x">> >>), Some(<< <<>> >>)}
TypeInfoDepends == {None} \cup {Some(m) : m \in UNION {[ks -> MatchValues] : ks \in SUBSET {<<"k">>}}}

MatchInputs ==
    [provides : MatchProvides,
     device_type : {<<"d">>, <<"e">>},
     hdr_depends : [device_type : {<<>>, << <<"d">> >>},
                    artifact_name : DependsLists,
                    artifact_group : DependsLists],
     ti_depends : TypeInfoDepends]

MatchInit ==
    /\ store = EmptyStore
    /\ last = NoCall(EmptyStore)
    /\ running = NoTxn
    /\ build \in Builds
    /\ \E x \in MatchInputs : pure = [fn |-> "match", in |-> x, done |-> FALSE]

MatchApply ==
    /\ pure.fn = "match"
    /\ ~pure.done
    /\ pure' = [fn |-> "match", in |-> pure.in, done |-> TRUE,
                out |-> ArtifactMatchesContext(pure.in.provides, pure.in.device_type,
                                               pure.in.hdr_depends, pure.in.ti_depends,
                                               build)]
    /\ UNCHANGED <<store, last, build, running>>

SpecMatch == MatchInit /\ [][MatchApply]_vars

Matched == pure.fn = "match" /\ pure.done

\* provides contain a non-empty value under key k.
HasNonEmpty(provides, k) == k \in DOMAIN provides /\ provides[k] # <<>>

\* The depends lists that are present are not empty, which the header
\* guarantees.
WellFormedDepends(hdr_depends) ==
    /\ hdr_depends.device_type # <<>>
    /\ hdr_depends.artifact_name.has => hdr_depends.artifact_name.val # <<>>
    /\ hdr_depends.artifact_group.has => hdr_depends.artifact_group.val # <<>>

IsEntry(list, str) == \E i \in 1..Len(list) : list[i] = str

\* Conditions 2 to 5 of the compatibility check as the specification states
\* them.
Compatible(provides, device_type, hdr_depends, ti_depends) ==
    /\ IsEntry(hdr_depends.device_type, device_type)
    /\ hdr_depends.artifact_name.has
         => IsEntry(hdr_depends.artifact_name.val, provides[ArtifactName])
    /\ hdr_depends.artifact_group.has
         => /\ HasNonEmpty(provides, ArtifactGroup)
            /\ IsEntry(hdr_depends.artifact_group.val, provides[ArtifactGroup])
    /\ ti_depends.has
         => \A k \in DOMAIN ti_depends.val :
               k \in DOMAIN provides /\ provides[k] = ti_depends.val[k]

\* C4: for provides with a non-empty artifact_name and well-formed depends,
\* ArtifactMatchesContext returns true exactly when the device type, the
\* artifact name, the artifact group (present and not empty in provides) and
\* the type-info depends all match, and false otherwise.
C4_MatchesIffCompatible ==
    (/\ Matched
     /\ HasNonEmpty(pure.in.provides, ArtifactName)
     /\ WellFormedDepends(pure.in.hdr_depends))
    => pure.out = MatchResult(Compatible(pure.in.provides, pure.in.device_type,
                                         pure.in.hdr_depends, pure.in.ti_depends))

\* C5: ArtifactMatchesContext reports a ValueError whenever provides have no
\* non-empty artifact_name, whatever else mismatches, and reports no error
\* for a mismatch of the other conditions.
C5_ValueErrorFirst ==
    Matched =>
        /\ ~HasNonEmpty(pure.in.provides, ArtifactName) => pure.out.res = "ValueError"
        /\ (/\ HasNonEmpty(pure.in.provides, ArtifactName)
            /\ WellFormedDepends(pure.in.hdr_depends))
           => pure.out.res = "ok"

-----------------------------------------------------------------------------
(* A LoadProvides that runs while a CommitArtifactData is in its write
   transaction.  The store keeps one writer at a time; a read transaction
   sees the store as it was committed when the transaction began. *)

\* Reads that see whatever is committed at the moment of each read, as three
\* separate read transactions would.
ReadViewLatest(snap, db) == db

\* Lines 127-133: LoadProvides(txn) does its three reads in the one read
\* transaction LoadProvides() opened, whose view of the store is snap.
ReadView(snap, db) == snap

ReadOrder == <<artifact_name_key, artifact_group_key, artifact_provides_key>>

ConcInit ==
    /\ store \in InitStores
    /\ build \in {b \in Builds : ~b.strict}
    /\ pure = Idle
    /\ last = NoCall(store)
    /\ running = [writer |-> [pc |-> "idle"], reader |-> [pc |-> "idle"],
                  pre |-> store, overlapped |-> FALSE]

WriterOpen(a, m) ==
    \E order \in CommitOrders(m) :
        running' = [running EXCEPT !.writer =
                        [pc |-> "open", args |-> a,
                         out |-> CommitTxn(store, a, m, order, build)]]

\* CommitArtifactData up to the return of the function it hands to
\* WriteTransaction: its writes are in the transaction, not yet committed.
WriterBegin ==
    /\ running.writer.pc = "idle"
    /\ \E a \in CommitArgs :
          WriterOpen(a, CommitMerge(LoadProvidesTxn(store, a.env.fault = "read"),
                                    a, build))
    /\ UNCHANGED <<store, last, build, pure>>

\* WriteTransaction commits or rolls back.
WriterEnd ==
    /\ running.writer.pc = "open"
    /\ store' = WriteTransaction(store, running.writer.out)
    /\ running' = [running EXCEPT
                      !.writer.pc = "done",
                      !.overlapped = /\ running.reader.pc = "reading"
                                     /\ Len(running.reader.todo) \in {1, 2}]
    /\ UNCHANGED <<last, build, pure>>

\* Line 127: LoadProvides() opens its read transaction.
ReaderBegin ==
    /\ running.reader.pc = "idle"
    /\ running' = [running EXCEPT !.reader =
                      [pc |-> "reading", snap |-> store, todo |-> ReadOrder,
                       read |-> EmptyMap, result |-> Ok(EmptyMap)]]
    /\ UNCHANGED <<store, last, build, pure>>

\* Lines 145-156: the next kv_db::ReadString of LoadProvides(txn).
ReaderRead ==
    /\ running.reader.pc = "reading"
    /\ running.reader.todo # <<>>
    /\ running' = [running EXCEPT
                      !.reader.todo = Tail(@),
                      !.reader.read =
                          MapSet(@, Head(running.reader.todo),
                                 ReadString(ReadView(running.reader.snap, store),
                                            Head(running.reader.todo)))]
    /\ UNCHANGED <<store, last, build, pure>>

\* Lines 158-190 and 128-137: the mapping is built and returned.
ReaderEnd ==
    /\ running.reader.pc = "reading"
    /\ running.reader.todo = <<>>
    /\ running' = [running EXCEPT
                      !.reader.pc = "done",
                      !.reader.result =
                          DecodeProvides(
                              ReservedProvides(running.reader.read[artifact_name_key],
                                               running.reader.read[artifact_group_key]),
                              running.reader.read[artifact_provides_key])]
    /\ UNCHANGED <<store, last, build, pure>>

ConcNext == WriterBegin \/ WriterEnd \/ ReaderBegin \/ ReaderRead \/ ReaderEnd

SpecConcurrent == ConcInit /\ [][ConcNext]_vars

\* C11: a LoadProvides that runs concurrently with a CommitArtifactData
\* returns the provides persisted before the commit or the provides persisted
\* after it (the same ones when the commit rolls back), never a mix.
C11_ReaderIsolation ==
    running.reader.pc = "done"
    => running.reader.result \in {Persisted(running.pre), Persisted(store)}

\* C11's case: a commit that changed the persisted provides was committed
\* between two reads of a LoadProvides that has since returned.
C11_Witness ==
    /\ running.reader.pc = "done"
    /\ running.overlapped
    /\ running.writer.pc = "done"
    /\ running.writer.out.res = "ok"
    /\ Persisted(running.pre) # Persisted(store)

-----------------------------------------------------------------------------
(* The provides codec as a function: encode as CommitArtifactData does,
   decode as LoadProvides does. *)

MaxCodecLen == 2
MaxCodecKeys == 1

CodecChars == {"a", "\"", "\\", "\n"}
CodecKeys == SeqsUpTo(CodecChars, MaxCodecLen) \ {<<>>}
CodecValues == SeqsUpTo(CodecChars, MaxCodecLen)
CodecMaps ==
    UNION {[ks -> CodecValues] : ks \in {x \in SUBSET CodecKeys : Cardinality(x) <= MaxCodecKeys}}

CodecInit ==
    /\ store = EmptyStore
    /\ last = NoCall(EmptyStore)
    /\ running = NoTxn
    /\ build \in {b \in Builds : ~b.strict}
    /\ \E m \in CodecMaps : pure = [fn |-> "codec", in |-> m, done |-> FALSE]

CodecDone(blob) ==
    pure' = [fn |-> "codec", in |-> pure.in, done |-> TRUE, blob |-> blob,
             out |-> DecodeProvides(EmptyMap, blob)]

\* Lines 329-344 on pure.in, then lines 165-190 on the blob.
CodecApply ==
    /\ pure.fn = "codec"
    /\ ~pure.done
    /\ \E order \in KeyOrders(DOMAIN pure.in) : CodecDone(EncodeProvides(pure.in, order))
    /\ UNCHANGED <<store, last, build, running>>

SpecCodec == CodecInit /\ [][CodecApply]_vars

\* C12: decoding the blob encoded for a mapping without reserved keys gives
\* the mapping back, whatever characters its keys and values hold; the empty
\* mapping encodes to the empty string, which decodes to the empty mapping.
C12_RoundTrip ==
    (pure.fn = "codec" /\ pure.done) =>
        /\ pure.out = Ok(pure.in)
        /\ pure.in = EmptyMap => pure.blob = <<>>

\* C13: whatever characters a clear pattern holds, its escaped form compiles,
\* so FilterProvides returns no error.
C13_CompileNeverFails ==
    (pure.fn = "filter" /\ pure.done) => pure.out.res = "ok"

-----------------------------------------------------------------------------
(* GetDeviceType *)

\* Line 217.
eq_pos == 12

DeviceTypePrefix == <<"d","e","v","i","c","e","_","t","y","p","e","=">>

\* The position of the first "\n" of s at or after pos, Len(s) + 1 if none.
RECURSIVE LineEnd(_, _)
LineEnd(s, pos) ==
    IF pos > Len(s) \/ s[pos] = "\n" THEN pos ELSE LineEnd(s, pos + 1)

\* std::getline(is, line) on a good stream at position pos: the line, the
\* position after its delimiter, and whether the end of file was hit (which
\* it is not when the delimiter was found).
GetlineTo(s, pos, end) ==
    [line |-> SubSeq(s, pos, end - 1),
     next |-> IF end > Len(s) THEN end ELSE end + 1,
     eof |-> end > Len(s)]

Getline(s, pos) == GetlineTo(s, pos, LineEnd(s, pos))

\* A getline whose read fails: badbit, no end of file, nothing extracted.
BadRead(pos) == [line |-> <<>>, next |-> pos, eof |-> FALSE]

\* A second-line check that only looks at the line's content.
TrailingLineOnly(second) == second.line # <<>>

\* Line 228: (line != "") || (!is.eof())
TrailingData(second) == second.line # <<>> \/ ~second.eof

\* Lines 225-234.
AfterFirstLine(file, fault, first) ==
    IF first.eof THEN Ok(SubSeq(first.line, eq_pos + 1, Len(first.line)))
    ELSE IF TrailingData(IF fault = "read2" THEN BadRead(first.next)
                         ELSE Getline(file, first.next))
    THEN Err("ValueError")
    ELSE Ok(SubSeq(first.line, eq_pos + 1, Len(first.line)))

\* Lines 217-221.
ParseFirstLine(file, fault, first) ==
    IF SubSeq(first.line, 1, IF Len(first.line) < eq_pos THEN Len(first.line) ELSE eq_pos)
         # DeviceTypePrefix
    THEN Err("ParseError")
    ELSE AfterFirstLine(file, fault, first)

\* expected::ExpectedString MenderContext::GetDeviceType() on a device type
\* file with content file; fault is the I/O call that fails, if any.
GetDeviceType(file, fault) ==
    IF fault = "open" THEN Err("OpenError")
    ELSE IF fault = "read1" THEN Err("ReadError")
    ELSE ParseFirstLine(file, fault, Getline(file, 1))

MaxTailLen == 3

DeviceTypeHeads ==
    {<<>>, DeviceTypePrefix, SubSeq(DeviceTypePrefix, 1, 11), <<"x">> \o DeviceTypePrefix}
DeviceTypeTails == SeqsUpTo({"f", " ", "\n"}, MaxTailLen)
DeviceTypeFiles == {h \o t : h \in DeviceTypeHeads, t \in DeviceTypeTails}

DeviceTypeInit ==
    /\ store = EmptyStore
    /\ last = NoCall(EmptyStore)
    /\ running = NoTxn
    /\ build \in {b \in Builds : ~b.strict}
    /\ \E f \in DeviceTypeFiles, x \in {"none", "open", "read1", "read2"} :
          pure = [fn |-> "device_type", file |-> f, fault |-> x, done |-> FALSE]

DeviceTypeApply ==
    /\ pure.fn = "device_type"
    /\ ~pure.done
    /\ pure' = [fn |-> "device_type", file |-> pure.file, fault |-> pure.fault,
                done |-> TRUE, out |-> GetDeviceType(pure.file, pure.fault)]
    /\ UNCHANGED <<store, last, build, running>>

SpecDevType == DeviceTypeInit /\ [][DeviceTypeApply]_vars

\* The file is "device_type=" and V, with or without one final newline.
IsDeviceTypeFile(file, V) ==
    /\ \A i \in 1..Len(V) : V[i] # "\n"
    /\ file \in {DeviceTypePrefix \o V, DeviceTypePrefix \o V \o <<"\n">>}

\* The first line of the file begins with "device_type=".
FirstLineHasPrefix(file) ==
    /\ Len(file) >= 12
    /\ SubSeq(file, 1, 12) = DeviceTypePrefix

\* Every read GetDeviceType makes of this file succeeds: the second read is
\* made only when the first line ends with a newline.
Readable(file, fault) ==
    /\ fault \notin {"open", "read1"}
    /\ fault = "read2" => \A i \in 1..Len(file) : file[i] # "\n"

\* C14: GetDeviceType returns V exactly when the file is one line
\* "device_type=" and V with at most one final newline, V verbatim; a first
\* line without the prefix is a ParseError; anything after the first line,
\* and a file that cannot be opened or read, is an error.
C14_DeviceTypeFile ==
    (pure.fn = "device_type" /\ pure.done) =>
        /\ \A V \in DeviceTypeTails :
              pure.out = Ok(V) <=> (IsDeviceTypeFile(pure.file, V)
                                    /\ Readable(pure.file, pure.fault))
        /\ pure.out.ok => pure.out.val \in DeviceTypeTails
        /\ (pure.fault \notin {"open", "read1"} /\ ~FirstLineHasPrefix(pure.file))
           => pure.out = Err("ParseError")
        /\ pure.fault \in {"open", "read1"} => ~pure.out.ok

\* C14's case: a file with a value that ends in a blank and a final newline
\* was read, and the value came back with the blank.
C14_Witness ==
    /\ pure.fn = "device_type"
    /\ pure.done
    /\ pure.file = DeviceTypePrefix \o <<"f", " ", "\n">>
    /\ pure.out = Ok(<<"f", " ">>)

-----------------------------------------------------------------------------
(* LoadProvides as a function of the three records *)

Quoted(str) == <<"\"">> \o str \o <<"\"">>

\* The text of a JSON object with one member whose value text is given.
OneMember(key, valueText) == <<"{">> \o Quoted(key) \o <<":">> \o valueText \o <<"}">>

\* Blobs with what they hold: the children when the text is an object of
\* strings, none when it does not parse, is no object or has a child that is
\* no string.
StoredBlobs ==
    { [text |-> <<>>, children |-> Some(EmptyMap)],
      [text |-> <<"{", "}">>, children |-> Some(EmptyMap)],
      [text |-> OneMember(<<"a">>, Quoted(<<"1">>)),
       children |-> Some([k \in {<<"a">>} |-> <<"1">>])],
      [text |-> Blob([k \in {<<"a">>, <<"b">>} |-> <<"1">>]),
       children |-> Some([k \in {<<"a">>, <<"b">>} |-> <<"1">>])],
      [text |-> OneMember(ArtifactName, Quoted(<<"x">>)),
       children |-> Some([k \in {ArtifactName} |-> <<"x">>])],
      [text |-> OneMember(<<"a">>, <<"1">>), children |-> None],
      [text |-> <<"{">> \o Quoted(<<"a">>) \o <<":">> \o Quoted(<<"1">>) \o <<",">>
                \o Quoted(<<"b">>) \o <<":", "1", "}">>,
       children |-> None],
      [text |-> Quoted(<<"a">>), children |-> None],
      [text |-> <<"{">> \o Quoted(<<"a">>) \o <<":">> \o Quoted(<<"1">>),
       children |-> None] }

StoredNames == {None, Some(<<>>), Some(<<"m">>)}

LoadInit ==
    /\ last = NoCall(EmptyStore)
    /\ running = NoTxn
    /\ build \in {b \in Builds : ~b.strict}
    /\ \E n \in StoredNames, g \in StoredNames, b \in StoredBlobs,
          present \in BOOLEAN, readFails \in BOOLEAN :
          /\ (b.text = <<>> \/ present)
          /\ store = [EmptyStore EXCEPT ![artifact_name_key] = n,
                                        ![artifact_group_key] = g,
                                        ![artifact_provides_key] =
                                            IF present THEN Some(b.text) ELSE None]
          /\ pure = [fn |-> "load", blob |-> b, readFails |-> readFails,
                     done |-> FALSE]

\* LoadProvides(txn) on the store.
LoadApply ==
    /\ pure.fn = "load"
    /\ ~pure.done
    /\ pure' = [fn |-> "load", blob |-> pure.blob, readFails |-> pure.readFails,
                done |-> TRUE, out |-> LoadProvidesTxn(store, pure.readFails)]
    /\ UNCHANGED <<store, last, build, running>>

SpecLoad == LoadInit /\ [][LoadApply]_vars

\* The record under key is there and not empty.
RecordSet(key) == store[key].has /\ store[key].val # <<>>

\* In the returned mapping the reserved key k is there exactly when its
\* record is not empty, with the record's value.
ReservedFromRecord(m, k, key) ==
    /\ k \in DOMAIN m <=> RecordSet(key)
    /\ k \in DOMAIN m => m[k] = store[key].val

\* C18: LoadProvides returns a whole mapping or an error: artifact_name and
\* artifact_group are in it exactly when their records are not empty, an
\* empty or absent blob adds no key, the children of a good blob are all in
\* it, and a blob that does not parse, is no object or has a child that is
\* no string gives an error and no mapping.
C18_LoadWholeOrError ==
    (pure.fn = "load" /\ pure.done /\ ~pure.readFails) =>
        /\ pure.out.ok <=> pure.blob.children.has
        /\ ~pure.out.ok => pure.out.val = EmptyMap
        /\ pure.out.ok =>
              /\ ReservedFromRecord(pure.out.val, ArtifactName, artifact_name_key)
              /\ ReservedFromRecord(pure.out.val, ArtifactGroup, artifact_group_key)
              /\ DOMAIN pure.out.val \ {ArtifactName, ArtifactGroup}
                    = DOMAIN pure.blob.children.val \ {ArtifactName, ArtifactGroup}
              /\ \A k \in DOMAIN pure.out.val \ {ArtifactName, ArtifactGroup} :
                    pure.out.val[k] = pure.blob.children.val[k]

-----------------------------------------------------------------------------
(* FilterProvides under rearranged clear patterns *)

MaxClearsLen == 2

OrderPatterns == {<<"a">>, <<"a", "*">>, <<"*">>, <<"(">>}
OrderKeys == {<<"a">>, <<"a", "b">>, <<"b">>}
OrderMaps == {[k \in ks |-> <<"1">>] : ks \in SUBSET OrderKeys}
OrderNewProvides == {EmptyMap, [k \in {<<"a">>} |-> <<"2">>], [k \in {<<"c">>} |-> <<"2">>]}

Entries(list) == {list[i] : i \in 1..Len(list)}

\* The lists that hold the entries of list, in any order and any number of
\* times each.
Rearranged(list) ==
    {l \in SeqsUpTo(OrderPatterns, MaxClearsLen + 1) : Entries(l) = Entries(list)}

OrderInit ==
    /\ store = EmptyStore
    /\ last = NoCall(EmptyStore)
    /\ running = NoTxn
    /\ build \in Builds
    /\ \E m \in OrderMaps, n \in OrderNewProvides,
          l \in SeqsUpTo(OrderPatterns, MaxClearsLen) :
          \E r \in Rearranged(l) :
              pure = [fn |-> "order", existing |-> m, newp |-> n, clears |-> l,
                      rearranged |-> r, done |-> FALSE]

\* FilterProvides(new_provides, clears_provides, to_modify), once with the
\* list and once with the rearranged list, each on its own copy of existing.
OrderApply ==
    /\ pure.fn = "order"
    /\ ~pure.done
    /\ pure' = [pure EXCEPT !.done = TRUE] @@
                [out |-> FilterProvides(pure.newp, pure.clears, pure.existing, build),
                 outRearranged |-> FilterProvides(pure.newp, pure.rearranged,
                                                  pure.existing, build)]
    /\ UNCHANGED <<store, last, build, running>>

SpecOrder == OrderInit /\ [][OrderApply]_vars

\* What a call leaves to its caller: the return value and to_modify, or
\* nothing but the abort when the process was aborted.
LeftToCaller(o) == IF o.res = "abort" THEN [res |-> "abort"] ELSE o

====
